---- MODULE Spec2Model ----
(***************************************************************************)
(* The legacy (readiness based) driver of monoio:                          *)
(* monoio/src/driver/legacy/mod.rs.                                        *)
(*                                                                         *)
(* One reactor thread owns the registration table (io_dispatch), the       *)
(* multiplexer (poll) and the event buffer; it runs register, deregister,  *)
(* poll_op, cancel_op and park.  Foreign threads only send wake requests   *)
(* into the waker channel and call unpark on the shared waker.             *)
(***************************************************************************)
EXTENDS Integers, Sequences, FiniteSets, TLC

(* ------------------------------ bounds -------------------------------- *)
MaxSlots == 2
MaxHandles == 2
MaxEvents == 1
MaxSends == 3
NumForeign == 2
MaxCalls == 5

(* ---------------------------- constants ------------------------------- *)
\* Token(n << k) is written <<n, k>>: 1 << 31 is beyond the checker's integers,
\* and every slab index of the model is a Token(n << 0).
WAKEUP_SHIFT == 31
TOKEN_WAKEUP == <<1, WAKEUP_SHIFT>>
Token(index) == <<index, 0>>

Slots == 0 .. (MaxSlots - 1)
Handles == 1 .. MaxHandles
Foreign == 1 .. NumForeign
Wakers == {"w1", "w2"}
NoWaker == "none"
Directions == {"Read", "Write"}

READABLE == {"READABLE"}
WRITABLE == {"WRITABLE"}
READ_CLOSED == {"READ_CLOSED"}
WRITE_CLOSED == {"WRITE_CLOSED"}
READ_CANCELED == {"READ_CANCELED"}
WRITE_CANCELED == {"WRITE_CANCELED"}
CANCELED == READ_CANCELED \cup WRITE_CANCELED
READ_ALL == READABLE \cup READ_CLOSED \cup READ_CANCELED
WRITE_ALL == WRITABLE \cup WRITE_CLOSED \cup WRITE_CANCELED

\* What a raw multiplexer event can report about a handle.
RawFlags == {"readable", "writable", "read_closed", "write_closed"}

VARIABLES
  io_dispatch,   \* the slab: occupied slot -> ScheduledIo
  registry,      \* the multiplexer's registration set: <<handle, token>>
  held,          \* <<handle, token>> pairs callers hold (register .. deregister)
  freed,         \* tokens whose slot deregister has freed, not issued again since
  events,        \* the event buffer filled by the last wait
  queue,         \* waker channel (flume, unbounded, FIFO)
  awake,         \* shared_waker.awake
  wakePending,   \* the wake source has been triggered and not yet reported
  pc,            \* position of the reactor thread ("dropped": driver gone)
  need_wait,     \* local of inner_park
  timeout,       \* local of inner_park: "none", "zero" or "some"
  result,        \* local of inner_park: what the wait returned
  fpc,           \* position of each foreign thread ("noop": back from an
                 \* unpark whose handle no longer upgraded)
  sent,          \* number of wake requests sent so far
  atStart,       \* the queue as it was when the running park call started
  passed,        \* the timeout the running park call was given
  drained,       \* wake requests received (and woken) by the running park call
  panicked,      \* the reactor thread panicked
  calls,         \* number of calls the reactor thread has made
  cstate,        \* per <<token, direction>>: where its cancellation stands
  last           \* the reactor thread's last call and what it returned

vars == <<io_dispatch, registry, held, freed, events, queue, awake, wakePending, pc,
          need_wait, timeout, result, fpc, sent, atStart, passed, drained, panicked, calls,
          cstate, last>>

(* --------------------------- Ready / Direction ------------------------ *)
mask(direction) == IF direction = "Read" THEN READ_ALL ELSE WRITE_ALL

is_readable(ready) == ready \cap READ_ALL # {}
is_writable(ready) == ready \cap WRITE_ALL # {}
is_canceled(ready) == ready \cap CANCELED # {}

\* Ready::from(event)
ReadyFrom(flags) ==
  (IF "readable" \in flags THEN READABLE ELSE {}) \cup
  (IF "writable" \in flags THEN WRITABLE ELSE {}) \cup
  (IF "read_closed" \in flags THEN READ_CLOSED ELSE {}) \cup
  (IF "write_closed" \in flags THEN WRITE_CLOSED ELSE {})

(* ------------------------------ ScheduledIo --------------------------- *)
NewScheduledIo == [readiness |-> {}, reader |-> NoWaker, writer |-> NoWaker]

waker_of(cell, direction) ==
  IF direction = "Read" THEN cell.reader ELSE cell.writer

set_waker(cell, w, direction) ==
  IF direction = "Read" THEN [cell EXCEPT !.reader = w]
  ELSE [cell EXCEPT !.writer = w]

clear_readiness(cell, ready) ==
  [cell EXCEPT !.readiness = cell.readiness \ ready]

\* ScheduledIo::wake: take and invoke the waker of every direction `ready`
\* intersects.  woken lists <<direction, waker>> in the order of invocation.
wake(cell, ready) ==
  LET r == is_readable(ready) /\ cell.reader # NoWaker
      w == is_writable(ready) /\ cell.writer # NoWaker
  IN [cell  |-> [cell EXCEPT !.reader = IF r THEN NoWaker ELSE @,
                             !.writer = IF w THEN NoWaker ELSE @],
      woken |-> (IF r THEN <<<<"Read", cell.reader>>>> ELSE <<>>) \o
                (IF w THEN <<<<"Write", cell.writer>>>> ELSE <<>>)]

(* ------------------------------- Slab --------------------------------- *)
slab_insert(tab, token, cell) ==
  [k \in DOMAIN tab \cup {token} |-> IF k = token THEN cell ELSE tab[k]]

slab_remove(tab, token) ==
  [k \in DOMAIN tab \ {token} |-> tab[k]]

FreeSlots(tab) == Slots \ DOMAIN tab

(* ------------------------------ dispatch ------------------------------ *)
Tag(token, woken) ==
  [i \in 1 .. Len(woken) |-> <<token, woken[i][1], woken[i][2]>>]

\* dispatch that sets the readiness and forgets to wake.
dispatch_no_wake(tab, token, ready) ==
  IF token \notin DOMAIN tab
  THEN [tab |-> tab, woken |-> <<>>]
  ELSE [tab |-> [tab EXCEPT ![token].readiness = @ \cup ready],
        woken |-> <<>>]

\* dispatch that overwrites the readiness with the update.
dispatch_overwrite(tab, token, ready) ==
  IF token \notin DOMAIN tab
  THEN [tab |-> tab, woken |-> <<>>]
  ELSE LET w == wake([tab[token] EXCEPT !.readiness = ready], ready)
       IN [tab |-> [tab EXCEPT ![token] = w.cell],
           woken |-> Tag(token, w.woken)]

\* dispatch that wakes and forgets to set the readiness.
dispatch_no_set(tab, token, ready) ==
  IF token \notin DOMAIN tab
  THEN [tab |-> tab, woken |-> <<>>]
  ELSE LET w == wake(tab[token], ready)
       IN [tab |-> [tab EXCEPT ![token] = w.cell],
           woken |-> Tag(token, w.woken)]

\* dispatch that makes a cell for a token it does not find.
dispatch_absent_insert(tab, token, ready) ==
  LET curr == IF token \in DOMAIN tab THEN tab[token] ELSE NewScheduledIo
      set  == [curr EXCEPT !.readiness = curr.readiness \cup ready]
      w    == wake(set, ready)
  IN [tab |-> slab_insert(tab, token, w.cell),
      woken |-> Tag(token, w.woken)]

dispatch(tab, token, ready) ==
  IF token \notin DOMAIN tab
  THEN [tab |-> tab, woken |-> <<>>]
  ELSE LET curr == tab[token]
           set  == [curr EXCEPT !.readiness = curr.readiness \cup ready]
           w    == wake(set, ready)
       IN [tab |-> [tab EXCEPT ![token] = w.cell],
           woken |-> Tag(token, w.woken)]

RECURSIVE dispatch_events(_, _)
dispatch_events(tab, evs) ==
  IF evs = <<>>
  THEN [tab |-> tab, woken |-> <<>>]
  ELSE LET e  == Head(evs)
           r1 == IF e.token # TOKEN_WAKEUP
                 THEN dispatch(tab, e.token[1], ReadyFrom(e.flags))
                 ELSE [tab |-> tab, woken |-> <<>>]
           r2 == dispatch_events(r1.tab, Tail(evs))
       IN [tab |-> r2.tab, woken |-> r1.woken \o r2.woken]

(* ------------------------------- state -------------------------------- *)
Call(op, tok, dir, res, retried, woken) ==
  [op |-> op, tok |-> tok, dir |-> dir, res |-> res, retried |-> retried,
   woken |-> woken]

Init ==
  /\ io_dispatch = << >>
  /\ registry = {}
  /\ held = {}
  /\ freed = {}
  /\ events = << >>
  /\ queue = << >>
  /\ awake = TRUE
  /\ wakePending = FALSE
  /\ pc = "run"
  /\ need_wait = TRUE
  /\ timeout = "none"
  /\ result = "none"
  /\ fpc = [f \in Foreign |-> "idle"]
  /\ sent = 0
  /\ atStart = << >>
  /\ passed = "none"
  /\ drained = << >>
  /\ panicked = FALSE
  /\ calls = 0
  /\ cstate = [k \in Slots \X Directions |-> "none"]
  /\ last = Call("new", 0, "Read", "ok", FALSE, << >>)

Running == pc = "run" /\ ~panicked

\* The reactor thread starts a call.
Enter == Running /\ calls < MaxCalls /\ calls' = calls + 1

ParkVars == <<queue, awake, wakePending, pc, need_wait, timeout, result,
              atStart, passed, drained, events>>
ForeignVars == <<fpc, sent>>
TableVars == <<io_dispatch, registry, held, freed>>

\* History of cancellation of <<token, direction>>, kept beside the program's
\* state: "none"; "idle" / "armed": cancel_op has been called on the live
\* token (with a waker stored, for "armed") and no poll_op on the pair has
\* followed; "done_idle" / "done_armed": one poll_op has followed.
CancelNoted(cs, tab, index, direction) ==
  IF index \notin DOMAIN tab THEN cs
  ELSE [cs EXCEPT ![<<index, direction>>] =
          IF waker_of(tab[index], direction) # NoWaker \/ @ = "armed"
          THEN "armed" ELSE "idle"]

PollNoted(cs, index, direction) ==
  [cs EXCEPT ![<<index, direction>>] =
      IF @ = "armed" THEN "done_armed"
      ELSE IF @ = "idle" THEN "done_idle" ELSE @]

SlotFreed(cs, index) ==
  [k \in DOMAIN cs |-> IF k[1] = index THEN "none" ELSE cs[k]]

(* ------------------------ register / deregister ----------------------- *)
\* LegacyDriver::register (unix).  ok: the multiplexer accepts the source.
\* The multiplexer refuses a source it already holds.
\* register without the rollback of the inserted cell.
register_table_no_rollback(tab, token, ok) ==
  slab_insert(tab, token, NewScheduledIo)

register_table(tab, token, ok) ==
  LET inserted == slab_insert(tab, token, NewScheduledIo)
  IN IF ok THEN inserted ELSE slab_remove(inserted, token)

Register(h, token, ok) ==
  /\ Enter
  /\ token \in FreeSlots(io_dispatch)
  /\ ok => h \notin {p[1] : p \in registry}
  /\ io_dispatch' = register_table(io_dispatch, token, ok)
  /\ registry' = IF ok THEN registry \cup {<<h, token>>} ELSE registry
  /\ held' = IF ok THEN held \cup {<<h, token>>} ELSE held
  /\ freed' = IF ok THEN freed \ {token} ELSE freed
  /\ last' = Call("register", token, "Read", IF ok THEN "ok" ELSE "err",
                  FALSE, << >>)
  /\ UNCHANGED <<ParkVars, ForeignVars, panicked, cstate>>

\* LegacyDriver::deregister (unix), called with a <<source, token>> pair the
\* caller got from register.
\* deregister that never frees the slot.
deregister_table_keep(tab, token, ok) == tab

\* deregister that frees the slot before it knows the multiplexer's answer.
deregister_table_early(tab, token, ok) == slab_remove(tab, token)

\* deregister that empties the cell when the multiplexer refuses.
deregister_table_reset(tab, token, ok) ==
  IF ok THEN slab_remove(tab, token)
  ELSE [tab EXCEPT ![token] = NewScheduledIo]

deregister_table(tab, token, ok) ==
  IF ok THEN slab_remove(tab, token) ELSE tab

Deregister(h, token, ok) ==
  /\ Enter
  /\ <<h, token>> \in held
  /\ ok => h \in {p[1] : p \in registry}
  /\ io_dispatch' = deregister_table(io_dispatch, token, ok)
  /\ registry' = IF ok THEN {p \in registry : p[1] # h} ELSE registry
  /\ held' = IF ok THEN held \ {<<h, token>>} ELSE held
  /\ freed' = IF ok THEN freed \cup {token} ELSE freed
  /\ cstate' = IF ok THEN SlotFreed(cstate, token) ELSE cstate
  /\ last' = Call("deregister", token, "Read", IF ok THEN "ok" ELSE "err",
                  FALSE, << >>)
  /\ UNCHANGED <<ParkVars, ForeignVars, panicked>>

(* ------------------------------- poll_op ------------------------------ *)
\* The operation has no fd dependency: the syscall is made right away.
PollOpNoInterest(outcome) ==
  /\ Enter
  /\ last' = Call("poll_op_nofd", 0, "Read", outcome, TRUE, << >>)
  /\ UNCHANGED <<TableVars, ParkVars, ForeignVars, panicked, cstate>>

\* The missing cell taken as "not ready yet": Pending, no panic.
PollOpLostPending(index, direction) ==
  /\ Enter
  /\ index \notin DOMAIN io_dispatch
  /\ last' = Call("poll_op", index, direction, "pending", FALSE, << >>)
  /\ UNCHANGED <<TableVars, ParkVars, ForeignVars, panicked, cstate>>

\* The cell is gone: expect("scheduled_io lost") panics.
PollOpLost(index, direction) ==
  /\ Enter
  /\ index \notin DOMAIN io_dispatch
  /\ panicked' = TRUE
  /\ last' = Call("poll_op", index, direction, "panic", FALSE, << >>)
  /\ UNCHANGED <<TableVars, ParkVars, ForeignVars, cstate>>

\* poll_op on (direction, index) with the caller's waker w; outcome is what
\* the retry callback (legacy_call) returns if it is called.
\* poll_op that clears all the direction's bits on the canceled path.
poll_op_clear_all(cell, direction, w, outcome) ==
  LET readiness == mask(direction) \cap cell.readiness
  IN IF readiness = {}
     THEN [cell |-> set_waker(cell, w, direction), res |-> "pending",
           retried |-> FALSE]
     ELSE IF is_canceled(readiness)
     THEN [cell |-> clear_readiness(cell, readiness),
           res |-> "canceled", retried |-> FALSE]
     ELSE IF outcome = "wouldblock"
     THEN [cell |-> set_waker(clear_readiness(cell, mask(direction)), w,
                              direction),
           res |-> "pending", retried |-> TRUE]
     ELSE [cell |-> cell, res |-> outcome, retried |-> TRUE]

\* poll_op that leaves the cancellation bit set on the canceled path.
poll_op_keep_canceled(cell, direction, w, outcome) ==
  LET readiness == mask(direction) \cap cell.readiness
  IN IF readiness = {}
     THEN [cell |-> set_waker(cell, w, direction), res |-> "pending",
           retried |-> FALSE]
     ELSE IF is_canceled(readiness)
     THEN [cell |-> cell, res |-> "canceled", retried |-> FALSE]
     ELSE IF outcome = "wouldblock"
     THEN [cell |-> set_waker(clear_readiness(cell, mask(direction)), w,
                              direction),
           res |-> "pending", retried |-> TRUE]
     ELSE [cell |-> cell, res |-> outcome, retried |-> TRUE]

\* poll_op that keeps the direction's bits on the would-block path.
poll_op_no_clear(cell, direction, w, outcome) ==
  LET readiness == mask(direction) \cap cell.readiness
  IN IF readiness = {}
     THEN [cell |-> set_waker(cell, w, direction), res |-> "pending",
           retried |-> FALSE]
     ELSE IF is_canceled(readiness)
     THEN [cell |-> clear_readiness(cell, readiness \cap CANCELED),
           res |-> "canceled", retried |-> FALSE]
     ELSE IF outcome = "wouldblock"
     THEN [cell |-> set_waker(cell, w, direction),
           res |-> "pending", retried |-> TRUE]
     ELSE [cell |-> cell, res |-> outcome, retried |-> TRUE]

poll_op(cell, direction, w, outcome) ==
  LET readiness == mask(direction) \cap cell.readiness
  IN IF readiness = {}
     THEN \* poll_readiness stores the waker and returns Pending
          [cell |-> set_waker(cell, w, direction), res |-> "pending",
           retried |-> FALSE]
     ELSE IF is_canceled(readiness)
     THEN [cell |-> clear_readiness(cell, readiness \cap CANCELED),
           res |-> "canceled", retried |-> FALSE]
     ELSE IF outcome = "wouldblock"
     THEN [cell |-> set_waker(clear_readiness(cell, mask(direction)), w,
                              direction),
           res |-> "pending", retried |-> TRUE]
     ELSE [cell |-> cell, res |-> outcome, retried |-> TRUE]

PollOp(index, direction, w, outcome) ==
  /\ Enter
  /\ index \in DOMAIN io_dispatch
  /\ LET r == poll_op(io_dispatch[index], direction, w, outcome)
     IN /\ io_dispatch' = [io_dispatch EXCEPT ![index] = r.cell]
        /\ last' = Call("poll_op", index, direction, r.res, r.retried, << >>)
  /\ cstate' = PollNoted(cstate, index, direction)
  /\ UNCHANGED <<registry, held, freed, ParkVars, ForeignVars, panicked>>

(* ------------------------------ cancel_op ----------------------------- *)
\* The cancellation bits of both directions.
CancelReadyBoth(direction) == CANCELED

CancelReady(direction) ==
  IF direction = "Read" THEN READ_CANCELED ELSE WRITE_CANCELED

CancelOp(index, direction) ==
  /\ Enter
  /\ LET r == dispatch(io_dispatch, index, CancelReady(direction))
     IN /\ io_dispatch' = r.tab
        /\ last' = Call("cancel_op", index, direction, "ok", FALSE, r.woken)
  /\ cstate' = CancelNoted(cstate, io_dispatch, index, direction)
  /\ UNCHANGED <<registry, held, freed, ParkVars, ForeignVars, panicked>>

(* ------------------------------ inner_park ---------------------------- *)
\* park() (no timeout), park_timeout(d) and submit() (zero timeout).
ParkStart(to) ==
  /\ Enter
  /\ pc' = "drain1"
  /\ need_wait' = TRUE
  /\ timeout' = to
  /\ result' = "none"
  /\ atStart' = queue
  /\ passed' = to
  /\ drained' = << >>
  /\ last' = Call("park", 0, "Read", "running", FALSE, << >>)
  /\ UNCHANGED <<TableVars, events, queue, awake, wakePending, ForeignVars,
                 panicked, cstate>>

\* One turn of `while let Ok(w) = waker_receiver.try_recv()`: the head of the
\* channel is received and woken.
try_recv(q) == [waker |-> Head(q), rest |-> Tail(q)]

\* `if let` in place of `while let`: one request is received per pass.
DrainRecvOnce(at) ==
  /\ pc = at
  /\ queue # << >>
  /\ queue' = Tail(queue)
  /\ drained' = Append(drained, Head(queue))
  /\ need_wait' = FALSE
  /\ pc' = IF at = "drain1" THEN "store" ELSE "wait"
  /\ timeout' = IF at = "drain2" THEN "zero" ELSE timeout
  /\ UNCHANGED <<result, TableVars, events, awake, wakePending, atStart, passed,
                 ForeignVars, panicked, calls, cstate, last>>

\* The second loop receives and wakes but leaves need_wait alone.
DrainRecvNoFlag(at) ==
  /\ pc = at
  /\ queue # << >>
  /\ LET r == try_recv(queue)
     IN /\ queue' = r.rest
        /\ drained' = Append(drained, r.waker)
  /\ need_wait' = IF at = "drain1" THEN FALSE ELSE need_wait
  /\ UNCHANGED <<result, TableVars, events, awake, wakePending, pc, timeout,
                 atStart, passed, ForeignVars, panicked, calls, cstate, last>>

DrainRecv(at) ==
  /\ pc = at
  /\ queue # << >>
  /\ LET r == try_recv(queue)
     IN /\ queue' = r.rest
        /\ drained' = Append(drained, r.waker)
  /\ need_wait' = FALSE
  /\ UNCHANGED <<result, TableVars, events, awake, wakePending, pc, timeout, atStart, passed,
                 ForeignVars, panicked, calls, cstate, last>>

\* try_recv finds the channel empty: the loop ends.
AfterDrain(at) == IF at = "drain1" THEN "store" ELSE "wait"

DrainEnd(at) ==
  /\ pc = at
  /\ queue = << >>
  /\ pc' = AfterDrain(at)
  /\ timeout' = IF at = "drain2" /\ ~need_wait THEN "zero" ELSE timeout
  /\ UNCHANGED <<result, TableVars, events, queue, awake, wakePending, need_wait,
                 atStart, passed, drained, ForeignVars, panicked, calls, cstate, last>>

Drain1Recv == DrainRecv("drain1")
Drain1End == DrainEnd("drain1")
Drain2Recv == DrainRecv("drain2")
Drain2End == DrainEnd("drain2")

\* The store of the awake flag left out.
StoreAwakeSkipped ==
  /\ pc = "store"
  /\ pc' = "drain2"
  /\ UNCHANGED <<result, TableVars, events, queue, awake, wakePending, need_wait,
                 timeout, atStart, passed, drained, ForeignVars, panicked, calls,
                 cstate, last>>

\* The condition of the store inverted.
StoreAwakeInverted ==
  /\ pc = "store"
  /\ awake' = IF need_wait THEN awake ELSE FALSE
  /\ pc' = "drain2"
  /\ UNCHANGED <<result, TableVars, events, queue, wakePending, need_wait,
                 timeout, atStart, passed, drained, ForeignVars, panicked,
                 calls, cstate, last>>

\* "Set status as not awake if we are going to sleep"
StoreAwake ==
  /\ pc = "store"
  /\ awake' = IF need_wait THEN FALSE ELSE awake
  /\ pc' = "drain2"
  /\ UNCHANGED <<result, TableVars, events, queue, wakePending, need_wait, timeout,
                 atStart, passed, drained, ForeignVars, panicked, calls, cstate, last>>

\* The batches a wait can report: at most MaxEvents events, one per
\* registered token, each with any raw flags.
RegisteredTokens == {p[2] : p \in registry}

RECURSIVE Batches(_, _)
Batches(tokens, n) ==
  IF n = 0 THEN {<< >>}
  ELSE {<< >>} \cup
       UNION {{<<[token |-> Token(t), flags |-> fl]>> \o b :
                  b \in Batches(tokens \ {t}, n - 1)} :
              <<t, fl>> \in tokens \X (SUBSET RawFlags)}

WakeEvent == [token |-> TOKEN_WAKEUP, flags |-> {"readable"}]

\* poll.poll(events, timeout) returns Ok: the buffer holds the batch, the
\* wake source's event first when it has been triggered.  With no timeout
\* the wait returns only when there is something to report.
WaitOk(batch) ==
  /\ pc = "wait"
  /\ timeout = "none" => (batch # << >> \/ wakePending)
  /\ LET evs == (IF wakePending THEN <<WakeEvent>> ELSE << >>) \o batch
         r   == dispatch_events(io_dispatch, evs)
     IN /\ events' = evs
        /\ io_dispatch' = r.tab
        /\ last' = Call("park", 0, "Read", "ok", FALSE, r.woken)
  /\ result' = "ok"
  /\ wakePending' = FALSE
  /\ pc' = "run"
  /\ UNCHANGED <<registry, held, freed, queue, awake, need_wait, timeout, atStart, passed,
                 drained, ForeignVars, panicked, calls, cstate>>

\* The buffer of the wait before is still there when the wait fails.
WaitErrStale(kind) ==
  /\ pc = "wait"
  /\ result' = kind
  /\ events' = events
  /\ IF kind = "Interrupted"
     THEN LET r == dispatch_events(io_dispatch, events)
          IN /\ io_dispatch' = r.tab
             /\ last' = Call("park", 0, "Read", "ok", FALSE, r.woken)
     ELSE /\ io_dispatch' = io_dispatch
          /\ last' = Call("park", 0, "Read", "err", FALSE, << >>)
  /\ pc' = "run"
  /\ UNCHANGED <<registry, held, freed, queue, awake, wakePending, need_wait,
                 timeout, atStart, passed, drained, ForeignVars, panicked, calls, cstate>>

\* The wait fails; the multiplexer has cleared the buffer before waiting.
\* Interrupted is swallowed, any other error is returned.
WaitErr(kind) ==
  /\ pc = "wait"
  /\ result' = kind
  /\ events' = << >>
  /\ IF kind = "Interrupted"
     THEN LET r == dispatch_events(io_dispatch, << >>)
          IN /\ io_dispatch' = r.tab
             /\ last' = Call("park", 0, "Read", "ok", FALSE, r.woken)
     ELSE /\ io_dispatch' = io_dispatch
          /\ last' = Call("park", 0, "Read", "err", FALSE, << >>)
  /\ pc' = "run"
  /\ UNCHANGED <<registry, held, freed, queue, awake, wakePending, need_wait,
                 timeout, atStart, passed, drained, ForeignVars, panicked, calls, cstate>>

(* --------------------------- foreign threads -------------------------- *)
\* A foreign thread wakes a task of the reactor thread: it sends the task's
\* waker into the channel, then calls unpark on the handle.
ForeignSend(f) ==
  /\ fpc[f] = "idle"
  /\ sent < MaxSends
  /\ sent' = sent + 1
  /\ queue' = Append(queue, sent + 1)
  /\ fpc' = [fpc EXCEPT ![f] = "unpark"]
  /\ UNCHANGED <<result, TableVars, events, awake, wakePending, pc, need_wait,
                 timeout, atStart, passed, drained, panicked, calls, cstate, last>>

\* A foreign thread calls unpark on a handle it keeps, sending nothing.
CallUnpark(f) ==
  /\ fpc[f] \in {"idle", "noop"}
  /\ fpc' = [fpc EXCEPT ![f] = "unpark"]
  /\ UNCHANGED <<TableVars, ParkVars, sent, panicked, calls, cstate, last>>

\* LegacyInner::unpark hands out Arc::downgrade(&inner.shared_waker).
\* A handle that is a clone of the Arc.
unpark_strong == "strong"

unpark == "weak"

\* The Shared Wake Signal has a strong owner: the driver, a thread between
\* its upgrade of the handle and the end of its call, or a strong handle.
SignalHeld ==
  \/ unpark = "strong"
  \/ pc # "dropped"
  \/ \E g \in Foreign : fpc[g] = "trigger"

\* unpark that triggers the wake source without reading the awake flag.
UnparkLoadAlways(f) ==
  /\ fpc[f] = "unpark"
  /\ fpc' = [fpc EXCEPT ![f] = IF ~SignalHeld THEN "noop" ELSE "trigger"]
  /\ UNCHANGED <<TableVars, ParkVars, sent, panicked, calls, cstate, last>>

\* UnparkHandle::unpark: upgrade the handle, a no-op if that fails; then
\* EventWaker::wake: skip the wake if already awake.  The upgrade and the
\* load are one step: the upgrade touches the reference count only, which
\* nothing but the teardown reads, and the teardown leaves the flag alone.
UnparkLoad(f) ==
  /\ fpc[f] = "unpark"
  /\ fpc' = [fpc EXCEPT ![f] = IF ~SignalHeld THEN "noop"
                                ELSE IF awake THEN "idle" ELSE "trigger"]
  /\ UNCHANGED <<TableVars, ParkVars, sent, panicked, calls, cstate, last>>

\* mio::Waker::wake on the always-registered wake source.
UnparkTrigger(f) ==
  /\ fpc[f] = "trigger"
  /\ wakePending' = TRUE
  /\ fpc' = [fpc EXCEPT ![f] = "idle"]
  /\ UNCHANGED <<result, TableVars, events, queue, awake, pc, need_wait, timeout,
                 atStart, passed, drained, sent, panicked, calls, cstate, last>>

(* -------------------------------- Drop -------------------------------- *)
\* The driver is dropped between two calls: its unpark handle and waker
\* sender leave the per-thread directory and LegacyInner goes with the
\* driver's reference to it.
Drop ==
  /\ pc = "run"
  /\ pc' = "dropped"
  /\ UNCHANGED <<TableVars, events, queue, awake, wakePending, need_wait,
                 timeout, result, atStart, passed, drained, ForeignVars, panicked,
                 calls, cstate, last>>

(* ------------------------------- Next --------------------------------- *)
Outcomes == {"ok", "wouldblock", "err"}
Timeouts == {"none", "zero", "some"}

DoRegister == \E h \in Handles, t \in Slots, ok \in BOOLEAN : Register(h, t, ok)
DoDeregister == \E h \in Handles, t \in Slots, ok \in BOOLEAN : Deregister(h, t, ok)
DoPollOp == \E t \in Slots, d \in Directions, w \in Wakers, o \in Outcomes :
               PollOp(t, d, w, o)
DoPollOpLost == \E t \in Slots, d \in Directions : PollOpLost(t, d)
DoPollOpNoInterest == \E o \in {"ok", "err"} : PollOpNoInterest(o)
DoCancelOp == \E t \in Slots, d \in Directions : CancelOp(t, d)
DoParkStart == \E to \in Timeouts : ParkStart(to)
DoWaitOk == \E b \in Batches(RegisteredTokens, MaxEvents) : WaitOk(b)
DoWaitErr == \E k \in {"Interrupted", "Other"} : WaitErr(k)
DoForeignSend == \E f \in Foreign : ForeignSend(f)
DoCallUnpark == \E f \in Foreign : CallUnpark(f)
DoUnparkLoad == \E f \in Foreign : UnparkLoad(f)
DoUnparkTrigger == \E f \in Foreign : UnparkTrigger(f)

Next ==
  \/ DoRegister
  \/ DoDeregister
  \/ DoPollOp
  \/ DoPollOpLost
  \/ DoPollOpNoInterest
  \/ DoCancelOp
  \/ DoParkStart
  \/ Drain1Recv
  \/ Drain1End
  \/ StoreAwake
  \/ Drain2Recv
  \/ Drain2End
  \/ DoWaitOk
  \/ DoWaitErr
  \/ DoForeignSend
  \/ DoUnparkLoad
  \/ DoUnparkTrigger
  \/ DoCallUnpark
  \/ Drop

Spec == Init /\ [][Next]_vars

\* The reactor thread alone: no foreign thread sends a wake request.
NextIO ==
  \/ DoRegister
  \/ DoDeregister
  \/ DoPollOp
  \/ DoPollOpLost
  \/ DoPollOpNoInterest
  \/ DoCancelOp
  \/ DoParkStart
  \/ Drain1End
  \/ StoreAwake
  \/ Drain2End
  \/ DoWaitOk
  \/ DoWaitErr

SpecIO == Init /\ [][NextIO]_vars

\* The calls on the registration table and its cells, without park.
NextTable ==
  \/ DoRegister
  \/ DoDeregister
  \/ DoPollOp
  \/ DoPollOpLost
  \/ DoPollOpNoInterest
  \/ DoCancelOp

SpecTable == Init /\ [][NextTable]_vars

\* park against the foreign threads.
NextWake ==
  \/ DoParkStart
  \/ Drain1Recv
  \/ Drain1End
  \/ StoreAwake
  \/ Drain2Recv
  \/ Drain2End
  \/ DoWaitOk
  \/ DoWaitErr
  \/ DoForeignSend
  \/ DoUnparkLoad
  \/ DoUnparkTrigger

SpecWake == Init /\ [][NextWake]_vars

\* park, unpark calls on kept handles, and the teardown of the driver.
NextDown ==
  \/ DoParkStart
  \/ Drain1End
  \/ StoreAwake
  \/ Drain2End
  \/ DoWaitOk
  \/ DoWaitErr
  \/ DoCallUnpark
  \/ DoUnparkLoad
  \/ DoUnparkTrigger
  \/ Drop

SpecDown == Init /\ [][NextDown]_vars

(* ======================================================================= *)
(* Properties                                                              *)
(* ======================================================================= *)
ReactorStep == calls' # calls \/ pc' # pc

IsPrefix(p, q) == Len(p) <= Len(q) /\ \A i \in 1 .. Len(p) : p[i] = q[i]

Armed(tab, t, d) == t \in DOMAIN tab /\ waker_of(tab[t], d) # NoWaker

\* This step dispatches a readiness or cancellation update to <<t, d>>.
CancelStep(t, d) ==
  calls' # calls /\ last'.op = "cancel_op" /\ last'.tok = t /\ last'.dir = d

EventFor(evs, t, d) ==
  {i \in 1 .. Len(evs) :
     evs[i].token = Token(t) /\ ReadyFrom(evs[i].flags) \cap mask(d) # {}}

WaitStep == pc = "wait" /\ pc' = "run"

Updated(t, d) == CancelStep(t, d) \/ (WaitStep /\ EventFor(events', t, d) # {})

Invocations(woken, t, d) ==
  {i \in 1 .. Len(woken) : woken[i][1] = t /\ woken[i][2] = d}

\* C1: a waker stored for (T, D) is invoked exactly once by a step that
\* dispatches a readiness or cancellation update to (T, D), it is the stored
\* waker that is invoked, and it is no longer stored afterwards; a step of the
\* reactor thread that dispatches no update to (T, D), or finds no waker
\* stored, invokes no waker for (T, D).
C1_WakeExactlyOnce ==
  [][ReactorStep =>
       \A t \in Slots, d \in Directions :
         LET inv == Invocations(last'.woken, t, d)
         IN IF Armed(io_dispatch, t, d) /\ Updated(t, d)
            THEN /\ Cardinality(inv) = 1
                 /\ \A i \in inv :
                      last'.woken[i][3] = waker_of(io_dispatch[t], d)
                 /\ ~Armed(io_dispatch', t, d)
            ELSE inv = {}]_vars

C1_Witness ==
  /\ last.op = "park"
  /\ last.res = "ok"
  /\ Len(events) > 0
  /\ \E i \in 1 .. Len(last.woken) : last.woken[i][2] = "Read"

\* C2: when park reaches the multiplexer wait, the wake requests that were in
\* the channel when the park call started have all been received and woken,
\* in channel order, before anything sent later.
C2_DrainedBeforeWait == pc = "wait" => IsPrefix(atStart, drained)

C2_Witness == pc = "wait" /\ Len(atStart) = 3 /\ Len(drained) = 3

\* C3: while the reactor is in a wait without timeout and a wake request is
\* in the channel, the wake event has been triggered, or a foreign thread is
\* about to trigger it: it is between its load of the awake flag (false) and
\* the trigger, or before a load that will read false.
C3_NoSleepOnPending ==
  (pc = "wait" /\ timeout = "none" /\ queue # << >>) =>
     \/ wakePending
     \/ \E f \in Foreign :
          fpc[f] = "trigger" \/ (fpc[f] = "unpark" /\ ~awake)

C3_Witness ==
  pc = "wait" /\ timeout = "none" /\ queue # << >> /\ wakePending

Resolving(tab) == DOMAIN tab

HeldTokens == {p[2] : p \in held}

\* C4: the tokens that resolve in the registration table are the tokens
\* under which a source is registered with the multiplexer, after every
\* register and deregister call, successful or failing.
C4_TableMatchesRegistry == Resolving(io_dispatch) = RegisteredTokens

C4_Witness ==
  last.op = "register" /\ last.res = "err" /\ registry # {}

\* C5: a token resolves in the table exactly while a registration holds it:
\* from the successful register that returned it until the successful
\* deregister of that registration, failing deregister calls included.
C5_ResolvesWhileHeld ==
  /\ \A t \in Slots : t \in Resolving(io_dispatch) <=> t \in HeldTokens
  /\ (last.op = "deregister" /\ last.res = "ok") =>
        last.tok \notin Resolving(io_dispatch)
  /\ (last.op = "deregister" /\ last.res = "err") =>
        last.tok \in Resolving(io_dispatch)

C5_Witness ==
  last.op = "deregister" /\ last.res = "ok" /\ held # {}

\* C6: a successful register returns a token that no live registration
\* holds, and live registrations have pairwise different tokens.
C6_FreshToken ==
  [][/\ (calls' # calls /\ last'.op = "register" /\ last'.res = "ok") =>
          last'.tok \notin HeldTokens
     /\ \A p, q \in held' : p[2] = q[2] => p = q]_vars

C6_Witness ==
  last.op = "register" /\ last.res = "ok" /\ Cardinality(held) = 2

PollStep(t, d) ==
  calls' # calls /\ last'.op = "poll_op" /\ last'.tok = t /\ last'.dir = d
  /\ last'.res # "panic"

\* C7: cancel_op on (T, D) invokes the waker stored for (T, D); the poll_op
\* on (T, D) that follows a cancel_op which found a waker stored completes
\* with the operation-canceled error, does not call the retry callback, and
\* changes nothing of the cell but D's cancellation bit, which it clears.
C7_CancelArmed ==
  [][\A t \in Slots, d \in Directions :
       /\ (CancelStep(t, d) /\ Armed(io_dispatch, t, d)) =>
            /\ last'.woken = <<<<t, d, waker_of(io_dispatch[t], d)>>>>
            /\ cstate'[<<t, d>>] = "armed"
       /\ (PollStep(t, d) /\ cstate[<<t, d>>] = "armed") =>
            /\ last'.res = "canceled"
            /\ ~last'.retried
            /\ CancelReady(d) \subseteq io_dispatch[t].readiness
            /\ io_dispatch'[t] =
                 [io_dispatch[t] EXCEPT !.readiness = @ \ CancelReady(d)]]_vars

C7_Witness ==
  /\ last.op = "poll_op"
  /\ last.res = "canceled"
  /\ cstate[<<last.tok, last.dir>>] = "done_armed"
  /\ io_dispatch[last.tok].readiness \cap mask(last.dir) # {}

\* C8: poll_op on (T, D) completes with the operation-canceled error exactly
\* when a cancel_op on (T, D) of the live token has not been followed by a
\* poll_op on (T, D) yet: the first poll_op after the cancellation delivers
\* the error, and a later one without a new cancel_op does not.
C8_CanceledOnce ==
  [][\A t \in Slots, d \in Directions :
       PollStep(t, d) =>
         (last'.res = "canceled" <=> cstate[<<t, d>>] \in {"idle", "armed"})]_vars

C8_Witness ==
  /\ last.op = "poll_op"
  /\ last.res \in {"ok", "pending"}
  /\ cstate[<<last.tok, last.dir>>] = "done_idle"

OtherDirection(d) == IF d = "Read" THEN "Write" ELSE "Read"

\* The readiness this step's dispatches carry for token t.
DispatchedTo(t) ==
  (IF \E d \in Directions : CancelStep(t, d)
   THEN CancelReady(last'.dir) ELSE {}) \cup
  (IF WaitStep
   THEN UNION {ReadyFrom(events'[i].flags) :
                 i \in {j \in 1 .. Len(events') : events'[j].token = Token(t)}}
   ELSE {})

\* C9: for a token that resolves before and after a step: a dispatch (park
\* or cancel_op) leaves the mask as the old mask OR the update; a poll_op on
\* direction D removes bits of D only; no other step changes the mask.
C9_Accumulate ==
  [][\A t \in Resolving(io_dispatch) \cap Resolving(io_dispatch') :
       LET old == io_dispatch[t].readiness
           new == io_dispatch'[t].readiness
       IN IF \E d \in Directions : PollStep(t, d)
          THEN /\ new \subseteq old
               /\ new \cap mask(OtherDirection(last'.dir)) =
                  old \cap mask(OtherDirection(last'.dir))
          ELSE new = old \cup DispatchedTo(t)]_vars

C9_Witness ==
  /\ last.op = "poll_op"
  /\ last.res = "pending"
  /\ last.retried
  /\ io_dispatch[last.tok].readiness # {}

\* C10: when the wait of park returns an event for T whose readiness
\* intersects D while a waker is stored for (T, D), then as park returns the
\* waker has been invoked, the event's bits of D are set in T's cell, and a
\* poll_op on (T, D) calls the retry callback, whatever its waker and
\* whatever the callback returns.
C10_ParkDelivers ==
  [][WaitStep =>
       \A t \in Slots, d \in Directions :
         (Armed(io_dispatch, t, d) /\ EventFor(events', t, d) # {}) =>
           /\ t \in Resolving(io_dispatch')
           /\ \E i \in 1 .. Len(last'.woken) :
                last'.woken[i] = <<t, d, waker_of(io_dispatch[t], d)>>
           /\ \A i \in EventFor(events', t, d) :
                ReadyFrom(events'[i].flags) \cap mask(d) \subseteq
                  io_dispatch'[t].readiness
           /\ \A w \in Wakers, o \in {"ok", "wouldblock", "err"} :
                poll_op(io_dispatch'[t], d, w, o).retried]_vars

C10_Witness ==
  /\ last.op = "park"
  /\ \E i \in 1 .. Len(last.woken) :
       /\ last.woken[i][2] = "Write"
       /\ "WRITABLE" \in io_dispatch[last.woken[i][1]].readiness

StaleEvents(tab) ==
  {[token |-> Token(t), flags |-> fl] :
     t \in Slots \ Resolving(tab), fl \in SUBSET RawFlags}

\* C11: a dispatch to a token that does not resolve in the table is a no-op.
\* cancel_op on such a token does not panic, invokes no waker and leaves the
\* table as it was; an event for such a token, put before or after the batch
\* of a wait, changes neither the cells park leaves nor the wakers it invokes.
C11_DispatchUnknown ==
  [][/\ \A t \in Slots \ Resolving(io_dispatch), d \in Directions :
          CancelStep(t, d) =>
            /\ io_dispatch' = io_dispatch
            /\ last'.woken = << >>
            /\ ~panicked'
     /\ (WaitStep /\ last'.res = "ok") =>
          \A e \in StaleEvents(io_dispatch) :
            LET here == [tab |-> io_dispatch', woken |-> last'.woken]
            IN /\ dispatch_events(io_dispatch, <<e>> \o events') = here
               /\ dispatch_events(io_dispatch, events' \o <<e>>) = here
               /\ ~panicked']_vars

C11_Witness ==
  /\ last.op = "cancel_op"
  /\ last.tok \notin Resolving(io_dispatch)
  /\ \E t \in Resolving(io_dispatch) : Armed(io_dispatch, t, last.dir)

\* A poll_op whose operation reports (d, t).
PollCall(t, d) ==
  calls' # calls /\ last'.op = "poll_op" /\ last'.tok = t /\ last'.dir = d

\* C12 as claimed: a poll_op on (D, T), T's slot freed by deregister, does not
\* panic and surfaces no error for the missing cell.
C12_StalePollSilent ==
  [][\A t \in freed, d \in Directions :
       PollCall(t, d) => (~panicked' /\ last'.res \notin {"panic", "err"})]_vars

\* C12 as amended: a poll_op on (D, T), T's slot freed by deregister, panics
\* ("scheduled_io lost"); it calls no retry callback and changes no cell.
C12_StalePollPanics ==
  [][\A t \in freed, d \in Directions :
       PollCall(t, d) =>
         /\ panicked'
         /\ last'.res = "panic"
         /\ ~last'.retried
         /\ io_dispatch' = io_dispatch]_vars

C12_Witness ==
  /\ last.op = "poll_op"
  /\ last.res = "panic"
  /\ last.tok \in freed
  /\ panicked
  /\ io_dispatch # << >>

\* C13: when the wait fails with an interruption, park returns success, no
\* cell changes and no waker is invoked; when it fails with another error,
\* park returns the error, no cell changes and no waker is invoked.
C13_WaitFails ==
  [][WaitStep =>
       /\ result' = "Interrupted" =>
            /\ last'.res = "ok"
            /\ io_dispatch' = io_dispatch
            /\ last'.woken = << >>
       /\ result' = "Other" =>
            /\ last'.res = "err"
            /\ io_dispatch' = io_dispatch
            /\ last'.woken = << >>]_vars

C13_Witness ==
  /\ last.op = "park"
  /\ last.res = "ok"
  /\ result = "Interrupted"
  /\ \E t \in Resolving(io_dispatch) : Armed(io_dispatch, t, "Read")

FailedCall(op) == calls' # calls /\ last'.op = op /\ last'.res = "err"

\* C14: a register or deregister call that fails returns the error and
\* leaves the table as it was: the same tokens resolve, each to a cell with
\* the same readiness bits and the same stored wakers (so the token of a
\* failed deregister still resolves, and a failed register adds none), and
\* the multiplexer's registrations are as before.
C14_FailureLeavesTable ==
  [][(FailedCall("register") \/ FailedCall("deregister")) =>
       /\ Resolving(io_dispatch') = Resolving(io_dispatch)
       /\ \A t \in Resolving(io_dispatch) : io_dispatch'[t] = io_dispatch[t]
       /\ registry' = registry
       /\ FailedCall("deregister") => last'.tok \in Resolving(io_dispatch')]_vars

C14_Witness ==
  /\ last.op = "deregister"
  /\ last.res = "err"
  /\ last.tok \in Resolving(io_dispatch)
  /\ io_dispatch[last.tok].reader # NoWaker
  /\ io_dispatch[last.tok].readiness # {}

\* The driver has been torn down and no unpark call that began before is
\* still running.
TornDown == pc = "dropped" /\ \A g \in Foreign : fpc[g] # "trigger"

\* C15: an unpark call made after the driver has been torn down is a no-op:
\* it ends without triggering the wake event and changes nothing of the
\* reactor's state; calls that began before the teardown may still end
\* after it.
C15_UnparkAfterTeardown ==
  [][TornDown =>
       /\ \A f \in Foreign :
            /\ fpc'[f] # "trigger"
            /\ (fpc[f] = "unpark" /\ fpc'[f] # "unpark") => fpc'[f] = "noop"
       /\ UNCHANGED <<io_dispatch, registry, events, queue, awake,
                      wakePending, pc, need_wait, timeout, result>>]_vars

C15_Witness ==
  /\ TornDown
  /\ ~awake
  /\ ~wakePending
  /\ \E f \in Foreign : fpc[f] = "noop"

\* C16: an unpark call that reads the awake flag as true ends without
\* triggering the wake event; so as long as the flag is true no unpark call,
\* however many run at once, has triggered the wake event or is about to:
\* two concurrent calls made while the reactor is awake trigger it at most
\* once (not at all).
C16_AwakeNoTrigger ==
  [][/\ \A f \in Foreign :
          (awake /\ fpc[f] = "unpark" /\ fpc'[f] # "unpark") =>
            /\ fpc'[f] = "idle"
            /\ wakePending' = wakePending
     /\ awake' => (~wakePending' /\ \A f \in Foreign : fpc'[f] # "trigger")]_vars

C16_Witness ==
  /\ awake
  /\ sent = 2
  /\ Len(queue) = 2
  /\ fpc[1] = "idle"
  /\ fpc[2] = "unpark"
  /\ ~wakePending

\* C17: when poll_op returns Pending for (T, D), T's cell is Armed for D:
\* the caller's waker is stored for D and no bit of D is set.  The retry
\* callback has been called exactly when D had a bit set at entry.
C17_PendingIsArmed ==
  [][\A t \in Slots, d \in Directions :
       (PollStep(t, d) /\ last'.res = "pending") =>
         /\ Armed(io_dispatch', t, d)
         /\ io_dispatch'[t].readiness \cap mask(d) = {}
         /\ last'.retried <=> io_dispatch[t].readiness \cap mask(d) # {}
         /\ \A w \in Wakers, o \in Outcomes :
              LET r == poll_op(io_dispatch[t], d, w, o)
              IN r.res = "pending" =>
                   /\ waker_of(r.cell, d) = w
                   /\ r.cell.readiness \cap mask(d) = {}]_vars

C17_Witness ==
  /\ last.op = "poll_op"
  /\ last.res = "pending"
  /\ last.retried
  /\ Armed(io_dispatch, last.tok, last.dir)
  /\ io_dispatch[last.tok].readiness \cap mask(OtherDirection(last.dir)) # {}

CanceledBit(d) == IF d = "Read" THEN {"READ_CANCELED"} ELSE {"WRITE_CANCELED"}

\* C18: cancel_op on (T, D), T resolving, sets D's cancellation bit and no
\* other bit, invokes no waker of the other direction and leaves the one
\* stored there; a poll_op on T in the other direction that follows
\* completes with the operation-canceled error only if it would have
\* without this cancel_op.
C18_CancelDirectional ==
  [][\A t \in Resolving(io_dispatch), d \in Directions :
       CancelStep(t, d) =>
         LET o == OtherDirection(d)
         IN /\ io_dispatch'[t].readiness =
                 io_dispatch[t].readiness \cup CanceledBit(d)
            /\ Invocations(last'.woken, t, o) = {}
            /\ waker_of(io_dispatch'[t], o) = waker_of(io_dispatch[t], o)
            /\ \A w \in Wakers, out \in Outcomes :
                 poll_op(io_dispatch'[t], o, w, out).res = "canceled" =>
                   poll_op(io_dispatch[t], o, w, out).res = "canceled"]_vars

C18_Witness ==
  /\ last.op = "cancel_op"
  /\ last.tok \in Resolving(io_dispatch)
  /\ last.woken # << >>
  /\ Armed(io_dispatch, last.tok, OtherDirection(last.dir))
  /\ io_dispatch[last.tok].readiness = CanceledBit(last.dir)

\* C19: when park is in the wait, the timeout of the wait is zero if the
\* call has drained a wake request in either pass, whatever timeout it was
\* given, and the timeout it was given if it has drained none.
C19_ZeroAfterDrain ==
  pc = "wait" =>
    timeout = IF drained # << >> THEN "zero" ELSE passed

C19_Witness ==
  /\ pc = "wait"
  /\ passed = "none"
  /\ timeout = "zero"
  /\ awake
  /\ Len(drained) = 1
  /\ Len(atStart) = 0

\* C20: while the reactor thread is in a wait whose timeout is not zero, the
\* awake flag is false; while it is in a wait with the flag still true, the
\* timeout is zero because the call has drained a wake request.
C20_AsleepWhenBlocking ==
  pc = "wait" =>
    /\ timeout # "zero" => ~awake
    /\ awake => (timeout = "zero" /\ drained # << >>)

C20_Witness ==
  /\ pc = "wait"
  /\ timeout = "some"
  /\ ~awake
  /\ drained = << >>
  /\ queue # << >>

====
